---- MODULE Spec2Model ----
(***************************************************************************)
(* Model of the TSDB block generator (package tsdb): CreateThanosTSDB,     *)
(* createBlock, createEmptyTimeseries, populateChunks, createIndex and     *)
(* getSymbols, with the chunk writer, the index writer, the XOR chunk      *)
(* encoder, MemPostings and the file system as collaborators.              *)
(*                                                                         *)
(* Time.  A time.Time is an integer number of ticks since the Unix epoch,  *)
(* a time.Duration an integer number of ticks; one second is               *)
(* TicksPerSecond ticks, so instants and durations that are not a whole    *)
(* number of seconds exist in the model.  Time.Unix() is Unix(t).          *)
(*                                                                         *)
(* Strings.  Label names, label values and series names are natural        *)
(* numbers ordered as the strings they stand for are ordered               *)
(* lexicographically; 0 stands for the empty string.                       *)
(*                                                                         *)
(* uint64.  A chunk reference is a 64-bit word kept as four 16-bit limbs,  *)
(* most significant first, so that shifts, masks and ORs are computed at   *)
(* their real width.                                                       *)
(***************************************************************************)
EXTENDS Integers, Sequences, FiniteSets, TLC

(***************************************************************************)
(* Bounds of the model.                                                    *)
(***************************************************************************)
\* ticks per second: the resolution of time.Time in the model
TicksPerSecond == 2
\* stands for maxSegmentSize (512 MiB in the source); scaled down so that a
\* block of a few chunks rolls over to the next segment.  It keeps the
\* source's relation segmentStartOffset + maxChunkSize <= maxSegmentSize.
MaxSegmentBytes == 20000
\* largest explicit start time, in ticks
MaxStart == 1
\* inputs are kept to runs of at most this many blocks ...
MaxBlocks == 2
\* ... of at most this many chunks per series
MaxChunks == 3
\* largest number of generators (series) of a run
MaxSeries == 2
\* sample intervals of 1..MaxInterval ticks
MaxInterval == 3
\* the shortest encoding the chunk encoder returns, in bytes
MinEncoded == 10

(***************************************************************************)
(* Constants of the source.                                                *)
(***************************************************************************)
chunkOverheadSize == 7
maxSegmentSize == MaxSegmentBytes
maxChunkSize == 1024 * 16
samplesPerChunk == 120
segmentStartOffset == 8

(***************************************************************************)
(* time.Time and time.Duration.                                            *)
(***************************************************************************)
Second == TicksPerSecond
Minute == 60 * Second
Hour == 60 * Minute
Week == Hour * 24 * 7
\* the zero time.Time: it lies before every instant of the model
ZeroTime == -1
IsZero(t) == t = ZeroTime
\* Time.Unix(): whole seconds since the epoch
Unix(t) == t \div TicksPerSecond
\* Duration.Nanoseconds() / (1000 * 1000): whole milliseconds of a duration
DurationMillis(d) == (d * 1000) \div TicksPerSecond
Before(t, u) == t < u
After(t, u) == t > u

(***************************************************************************)
(* uint64 words as four 16-bit limbs.                                      *)
(***************************************************************************)
Limb == 256 * 256
RECURSIVE BitOr(_, _)
BitOr(a, b) ==
    IF a = 0 THEN b
    ELSE IF b = 0 THEN a
    ELSE (IF a % 2 = 1 \/ b % 2 = 1 THEN 1 ELSE 0) + 2 * BitOr(a \div 2, b \div 2)
\* uint64(n) for 0 <= n < 2^32
Word(n) == <<0, 0, (n \div Limb) % Limb, n % Limb>>
\* w << 32
Shl32(w) == <<w[3], w[4], 0, 0>>
\* w >> 32
Shr32(w) == <<0, 0, w[1], w[2]>>
\* w & 0xFFFFFFFF
Low32(w) == <<0, 0, w[3], w[4]>>
\* v | w
WordOr(v, w) == [k \in 1..4 |-> BitOr(v[k], w[k])]
\* v < w on uint64
WordLess(v, w) ==
    \E k \in 1..4 : v[k] < w[k] /\ \A j \in 1..(k - 1) : v[j] = w[j]

(***************************************************************************)
(* State.                                                                  *)
(***************************************************************************)
VARIABLES
    opts,        \* the Opts value CreateThanosTSDB works on
    pc,          \* the statement the run is at
    err,         \* the error CreateThanosTSDB returns ("" is nil)
    blockStart,  \* loop variable of CreateThanosTSDB
    blockEnd,    \* createBlock's blockEnd
    created,     \* the (blockStart, blockEnd) pairs passed to createBlock, in order
    rngDraws,    \* number of block identifiers drawn from rng
    blockULID,   \* createBlock's blockULID
    series,      \* createBlock's series: <<[ID, Name, Chunks]>>
    cw,          \* the chunk writer of the block
    ref,         \* populateChunks' ref
    seg,         \* populateChunks' seg
    i,           \* index of the series populateChunks is at (1-based)
    chunkStart,  \* loop variable of populateChunks' chunk loop
    alloc,       \* per chunk of the block, in order: what the loops used for it
    iw,          \* the index writer of the block and the calls it received
    labelValues, \* createIndex's labelValues
    pending,     \* the names of labelValues the range loop has not visited yet
    postings,    \* createIndex's postings (MemPostings): key -> list of ids
    k,           \* index of createIndex's loops (1-based)
    metas,       \* the meta.json files written, in order
    log          \* the calls made on the collaborators so far, in order

popVars == <<cw, ref, seg, i, chunkStart, alloc>>
idxVars == <<iw, labelValues, pending, postings, k>>

vars == <<opts, pc, err, blockStart, blockEnd, created, rngDraws, blockULID,
          series, cw, ref, seg, i, chunkStart, alloc, iw, labelValues, pending,
          postings, k, metas, log>>

(***************************************************************************)
(* Inputs.                                                                 *)
(***************************************************************************)
\* possible values of time.Now()
Nows == {Week, Week + 1}

\* labels.Labels of a generator: none, one label, or two labels in the order
\* NewIncreasingTimeseriesGenerator leaves them in (the name label last)
LabelLists ==
    {<<>>}
    \cup {<<[Name |-> 1, Value |-> v]>> : v \in 1..2}
    \cup {<<[Name |-> 2, Value |-> 1], [Name |-> 1, Value |-> v]>> : v \in 1..2}

\* []TimeseriesGenerator: the generator at position j is named j
GeneratorLists ==
    UNION {{[j \in 1..n |-> [name |-> j, labels |-> ls[j]]] :
              ls \in [1..n -> LabelLists]} : n \in 0..MaxSeries}

StartTimes == {ZeroTime} \cup 0..MaxStart
EndTimes == {ZeroTime} \cup 0..MaxStart \cup {60, 61, 300, 480, Hour}
SampleIntervals == 0..MaxInterval \cup {Minute, Hour}
BlockLengths == {0, 60, 240, 300, 30 * Minute, Week}

\* the defaults of CreateThanosTSDB applied to o, with time.Now() = now
Defaulted(o, now) ==
    LET o1 == [o EXCEPT !.OutputDir = IF @ = "" THEN "/tmp/tsdb" ELSE @]
        o2 == [o1 EXCEPT !.StartTime = IF IsZero(@) THEN now - Week ELSE @]
    IN  [o2 EXCEPT !.EndTime = IF IsZero(@) THEN now ELSE @]

DefaultedDurations(o) ==
    LET o1 == [o EXCEPT !.SampleInterval = IF @ = 0 THEN Second * 15 ELSE @]
    IN  [o1 EXCEPT !.BlockLength = IF @ = 0 THEN Hour * 2 ELSE @]

CeilDiv(a, b) == (a + b - 1) \div b

\* the runs the model follows: few blocks, few chunks per series
Small(o) ==
    \A now \in Nows :
        LET d == DefaultedDurations(Defaulted(o, now))
        IN  /\ d.EndTime - d.StartTime <= MaxBlocks * d.BlockLength
            /\ d.BlockLength <= MaxChunks * d.SampleInterval * samplesPerChunk

\* runs that vary the time range, with one generator
TimeRuns ==
    {o \in [OutputDir : {""},
            Timeseries : {<<[name |-> 1, labels |-> <<[Name |-> 1, Value |-> 1]>>]>>},
            StartTime : StartTimes, EndTime : EndTimes,
            SampleInterval : SampleIntervals, BlockLength : BlockLengths] : Small(o)}

\* runs that vary the generators, over one block of one chunk per series
SeriesRuns ==
    [OutputDir : {""}, Timeseries : GeneratorLists, StartTime : {1},
     EndTime : {60}, SampleInterval : {1}, BlockLength : {60}]

\* runs of MaxSeries generators like those of main, over blocks of two chunks
\* per series
SegmentRuns ==
    [OutputDir : {""},
     Timeseries : {[j \in 1..MaxSeries |->
                      [name |-> j, labels |-> <<[Name |-> 2, Value |-> j],
                                                [Name |-> 1, Value |-> j]>>]]},
     StartTime : {0}, EndTime : {240, 300}, SampleInterval : {1},
     BlockLength : {240}]

Runs == TimeRuns \cup SeriesRuns \cup SegmentRuns

NoULID == [time |-> 0, entropy |-> 0]
NoChunkWriter == [state |-> "none", dir |-> NoULID, chunks |-> <<>>]
NoIndexWriter ==
    [state |-> "none", dir |-> NoULID, symbols |-> {}, series |-> <<>>,
     labelIndex |-> <<>>, postings |-> <<>>]

Init ==
    /\ opts \in Runs
    /\ pc = "CreateThanosTSDB"
    /\ err = ""
    /\ blockStart = ZeroTime
    /\ blockEnd = ZeroTime
    /\ created = <<>>
    /\ rngDraws = 0
    /\ blockULID = NoULID
    /\ series = <<>>
    /\ cw = NoChunkWriter
    /\ ref = 0
    /\ seg = 0
    /\ i = 0
    /\ chunkStart = ZeroTime
    /\ alloc = <<>>
    /\ iw = NoIndexWriter
    /\ labelValues = <<>>
    /\ pending = {}
    /\ postings = <<>>
    /\ k = 0
    /\ metas = <<>>
    /\ log = <<>>

(***************************************************************************)
(* CreateThanosTSDB.                                                       *)
(***************************************************************************)
\* the run calls op of a collaborator for the block it is at; ok is whether
\* the call returns a nil error, arg tells the calls of one loop apart
Called(op, ok, arg) ==
    log' = Append(log, [op |-> op, block |-> Len(created), ok |-> ok, arg |-> arg])

\* a check that also rejects the empty range
BadRange_NotBefore(o) == ~Before(o.StartTime, o.EndTime)

\* the check of the time range
BadRange(o) == After(o.StartTime, o.EndTime)

\* from the entry to the first test of the block loop
CreateThanosTSDB ==
    /\ pc = "CreateThanosTSDB"
    /\ \E now \in Nows :
        LET o == Defaulted(opts, now)
        IN  IF BadRange(o)
            THEN /\ opts' = o
                 /\ err' = "end time cannot come after start time"
                 /\ pc' = "done"
                 /\ UNCHANGED blockStart
            ELSE /\ opts' = DefaultedDurations(o)
                 /\ blockStart' = o.StartTime
                 /\ pc' = "loop"
                 /\ UNCHANGED err
    /\ UNCHANGED <<blockEnd, created, rngDraws, blockULID, series, popVars,
                   idxVars, metas, log>>

\* a loop that builds only the blocks that end by the end time
MoreBlocks_WholeOnly == ~After(blockStart + opts.BlockLength, opts.EndTime)

\* the condition of the block loop
MoreBlocks == Before(blockStart, opts.EndTime)

\* a step that leaves a tick between two blocks
NextBlockStart_Gap == blockStart + opts.BlockLength + 1

\* the block loop's step
NextBlockStart == blockStart + opts.BlockLength

\* ids counted from one
createEmptyTimeseries_OneBased(generators) ==
    [j \in 1..Len(generators) |->
        [ID |-> j, Name |-> generators[j].name, Chunks |-> <<>>]]

createEmptyTimeseries(generators) ==
    [j \in 1..Len(generators) |->
        [ID |-> j - 1, Name |-> generators[j].name, Chunks |-> <<>>]]

\* the block loop enters createBlock: block id, output directory, empty series
\* (ulid.New fails only for a time past its 48 bits or a failing entropy
\* source; neither occurs for the instants of the model and math/rand)
createBlock ==
    /\ pc = "loop"
    /\ MoreBlocks
    /\ blockEnd' = blockStart + opts.BlockLength
    /\ created' = Append(created, <<blockStart, blockEnd'>>)
    /\ rngDraws' = rngDraws + 1
    /\ blockULID' = [time |-> Unix(blockEnd'), entropy |-> rngDraws']
    /\ series' = createEmptyTimeseries(opts.Timeseries)
    /\ alloc' = <<>>
    /\ log' = Append(log, [op |-> "ulid.New", block |-> Len(created'), ok |-> TRUE,
                           arg |-> 0])
    /\ pc' = "populateChunks"
    /\ UNCHANGED <<opts, err, blockStart, cw, ref, seg, i, chunkStart, idxVars,
                   metas>>

\* the block loop ends: CreateThanosTSDB returns nil
Return ==
    /\ pc = "loop"
    /\ ~MoreBlocks
    /\ pc' = "done"
    /\ UNCHANGED <<opts, err, blockStart, blockEnd, created, rngDraws, blockULID,
                   series, popVars, idxVars, metas, log>>

\* an error that is noted while the run goes on
Fail_GoesOn(e) ==
    /\ err' = e
    /\ pc' = pc

\* an error leaves createBlock and CreateThanosTSDB
Fail(e) ==
    /\ err' = e
    /\ pc' = "done"

(***************************************************************************)
(* populateChunks.                                                         *)
(***************************************************************************)
\* a cursor that lives on from the block before
StartCursor_Carried ==
    IF cw.state = "none" THEN [ref |-> segmentStartOffset, seg |-> 0]
    ELSE [ref |-> ref, seg |-> seg]

\* ref and seg as populateChunks declares them
StartCursor == [ref |-> segmentStartOffset, seg |-> 0]

\* chunks.NewWriter and the initial ref and seg
populateChunks ==
    /\ pc = "populateChunks"
    /\ \E ok \in BOOLEAN :
        IF ok
        THEN /\ cw' = [state |-> "open", dir |-> blockULID, chunks |-> <<>>]
             /\ ref' = StartCursor.ref
             /\ seg' = StartCursor.seg
             /\ i' = 1
             /\ chunkStart' = blockStart
             /\ pc' = "chunk"
             /\ UNCHANGED err
             /\ Called("chunks.NewWriter", TRUE, 0)
        ELSE /\ Fail("failed to create chunks")
             /\ Called("chunks.NewWriter", FALSE, 0)
             /\ UNCHANGED <<cw, ref, seg, i, chunkStart>>
    /\ UNCHANGED <<opts, blockStart, blockEnd, created, rngDraws, blockULID,
                   series, alloc, idxVars, metas>>

chunkLength == opts.SampleInterval * samplesPerChunk

\* the timestamp appended for the sample at instant sample
SampleMillis(sample) == Unix(sample) * 1000

\* the sample loop from instant sample to end (exclusive) in steps of the
\* sample interval (> 0 after the defaults): the instants visited
SampleInstants(sample, end) ==
    [j \in 1..CeilDiv(end - sample, opts.SampleInterval) |->
        sample + (j - 1) * opts.SampleInterval]

\* the timestamps the sample loop appends, in order
SampleLoop(sample, end) ==
    LET at == SampleInstants(sample, end)
    IN  [j \in 1..Len(at) |-> SampleMillis(at[j])]

\* a bound that stops the last chunk at the end of the block
SampleEnd_Clamped(start) ==
    IF Before(blockEnd, start + chunkLength) THEN blockEnd ELSE start + chunkLength

\* the bound of the sample loop of the chunk starting at start
SampleEnd(start) == start + chunkLength

\* len(ch.Bytes()): the encoder is opaque, any of these lengths may come back
EncodedLens == {MinEncoded, maxChunkSize - chunkOverheadSize,
                maxChunkSize - chunkOverheadSize + 1}

\* a limit that lets one byte more through
TooBig_OneMore(size) == size > maxChunkSize + 1

\* the test of the chunk size
TooBig(size) == size > maxChunkSize

\* a test that looks at the cursor alone
Rollover_IgnoresSize(size) == ref > maxSegmentSize

\* whether the chunk of this size goes to a new segment
Rollover(size) == ref + size > maxSegmentSize

\* a cursor that advances by the overhead alone
AdvanceRef_OverheadOnly(r, size) == r + chunkOverheadSize

\* ref += size
AdvanceRef(r, size) == r + size

\* ref | (seg << 32)
PackRef(r, s) == WordOr(Word(r), Shl32(Word(s)))

\* MaxTime of the chunk whose MinTime is chunkStartMs
ChunkMaxTime(chunkStartMs) == chunkStartMs + DurationMillis(opts.SampleInterval)

\* the chunk loop's step
NextChunkStart == chunkStart + chunkLength

\* a loop that stops before the last series
SeriesLeft_StopsEarly == i < Len(series)

\* the condition of the series loop
SeriesLeft == i <= Len(series)

\* one iteration of the chunk loop of series i
populateChunks_chunk ==
    /\ pc = "chunk"
    /\ SeriesLeft
    /\ Before(chunkStart, blockEnd)
    /\ \E appender \in BOOLEAN, bytes \in EncodedLens :
        LET size == bytes + chunkOverheadSize
            roll == Rollover(size)
            ref1 == IF roll THEN segmentStartOffset ELSE ref
            seg1 == IF roll THEN seg + 1 ELSE seg
            chunkStartMs == Unix(chunkStart) * 1000
            cm == [Chunk |-> [samples |-> SampleLoop(chunkStart, SampleEnd(chunkStart)),
                              bytes |-> bytes],
                   MinTime |-> chunkStartMs,
                   MaxTime |-> ChunkMaxTime(chunkStartMs),
                   Ref |-> PackRef(ref1, seg1)]
        IN  IF ~appender
            THEN /\ Fail("failed to create chunks")
                 /\ Called("ch.Appender", FALSE, i)
                 /\ UNCHANGED <<series, ref, seg, chunkStart, alloc>>
            ELSE IF TooBig(size)
            THEN /\ Fail("failed to create chunks: chunk too big")
                 /\ Called("ch.Bytes", FALSE, i)
                 /\ UNCHANGED <<series, ref, seg, chunkStart, alloc>>
            ELSE /\ series' = [series EXCEPT ![i].Chunks = Append(@, cm)]
                 /\ ref' = AdvanceRef(ref1, size)
                 /\ seg' = seg1
                 /\ chunkStart' = NextChunkStart
                 /\ alloc' = Append(alloc, [series |-> i, start |-> chunkStart,
                                            end |-> SampleEnd(chunkStart),
                                            ref |-> ref1, seg |-> seg1, size |-> size])
                 /\ UNCHANGED <<err, pc, log>>
    /\ UNCHANGED <<opts, blockStart, blockEnd, created, rngDraws, blockULID, cw, i,
                   idxVars, metas>>

\* the chunk loop of series i ends: cw.WriteChunks(s.Chunks...)
populateChunks_WriteChunks ==
    /\ pc = "chunk"
    /\ SeriesLeft
    /\ ~Before(chunkStart, blockEnd)
    /\ \E ok \in BOOLEAN :
        IF ok
        THEN /\ cw' = [cw EXCEPT !.chunks =
                          @ \o [j \in 1..Len(series[i].Chunks) |-> series[i].Chunks[j].Ref]]
             /\ i' = i + 1
             /\ chunkStart' = blockStart
             /\ UNCHANGED <<err, pc>>
             /\ Called("cw.WriteChunks", TRUE, i)
        ELSE /\ Fail("failed to create chunks")
             /\ Called("cw.WriteChunks", FALSE, i)
             /\ UNCHANGED <<cw, i, chunkStart>>
    /\ UNCHANGED <<opts, blockStart, blockEnd, created, rngDraws, blockULID,
                   series, ref, seg, alloc, idxVars, metas>>

\* the series loop ends: cw.Close()
populateChunks_Close ==
    /\ pc = "chunk"
    /\ ~SeriesLeft
    /\ \E ok \in BOOLEAN :
        IF ok
        THEN /\ cw' = [cw EXCEPT !.state = "closed"]
             /\ pc' = "createIndex"
             /\ UNCHANGED err
             /\ Called("cw.Close", TRUE, 0)
        ELSE /\ Fail("failed to create chunks")
             /\ Called("cw.Close", FALSE, 0)
             /\ UNCHANGED cw
    /\ UNCHANGED <<opts, blockStart, blockEnd, created, rngDraws, blockULID,
                   series, ref, seg, i, chunkStart, alloc, idxVars, metas>>

(***************************************************************************)
(* createIndex.                                                            *)
(***************************************************************************)
\* the labels of all generators, in the order the loops of createIndex and
\* getSymbols visit them
RECURSIVE AllLabels(_)
AllLabels(generators) ==
    IF generators = <<>> THEN <<>>
    ELSE generators[1].labels \o AllLabels(Tail(generators))

LabelNames(generators) ==
    {AllLabels(generators)[j].Name : j \in 1..Len(AllLabels(generators))}

\* the values appended to labelValues[name]
ValuesOf(generators, name) ==
    LET named == SelectSeq(AllLabels(generators), LAMBDA l : l.Name = name)
    IN  [j \in 1..Len(named) |-> named[j].Value]

\* labelValues after the loop over the generators
BuildLabelValues(generators) ==
    [name \in LabelNames(generators) |-> ValuesOf(generators, name)]

getSymbols(lv) ==
    DOMAIN lv \cup UNION {{lv[n][j] : j \in 1..Len(lv[n])} : n \in DOMAIN lv}

\* index.NewWriter, then the loop that fills labelValues
createIndex ==
    /\ pc = "createIndex"
    /\ \E ok \in BOOLEAN :
        IF ok
        THEN /\ iw' = [NoIndexWriter EXCEPT !.state = "open", !.dir = blockULID]
             /\ labelValues' = BuildLabelValues(opts.Timeseries)
             /\ pc' = "AddSymbols"
             /\ UNCHANGED err
             /\ Called("index.NewWriter", TRUE, 0)
        ELSE /\ Fail("failed to create index")
             /\ Called("index.NewWriter", FALSE, 0)
             /\ UNCHANGED <<iw, labelValues>>
    /\ UNCHANGED <<opts, blockStart, blockEnd, created, rngDraws, blockULID,
                   series, popVars, pending, postings, k, metas>>

\* where createIndex goes on after the loop over the series
AfterAddSeries == IF DOMAIN labelValues # {} THEN "WriteLabelIndex" ELSE "postings"

\* iw.AddSymbols(getSymbols(labelValues))
createIndex_AddSymbols ==
    /\ pc = "AddSymbols"
    /\ \E ok \in BOOLEAN :
        IF ok
        THEN /\ iw' = [iw EXCEPT !.symbols = getSymbols(labelValues)]
             /\ k' = 1
             /\ pending' = DOMAIN labelValues
             /\ pc' = IF Len(series) > 0 THEN "AddSeries" ELSE AfterAddSeries
             /\ UNCHANGED err
             /\ Called("iw.AddSymbols", TRUE, 0)
        ELSE /\ Fail("failed to create index")
             /\ Called("iw.AddSymbols", FALSE, 0)
             /\ UNCHANGED <<iw, k, pending>>
    /\ UNCHANGED <<opts, blockStart, blockEnd, created, rngDraws, blockULID,
                   series, popVars, labelValues, postings, metas>>

\* the references of a list of chunks.Meta
Refs(chunks) == [j \in 1..Len(chunks) |-> chunks[j].Ref]

\* iw.AddSeries for the k-th series
createIndex_AddSeries ==
    /\ pc = "AddSeries"
    /\ \E ok \in BOOLEAN :
        IF ok
        THEN /\ iw' = [iw EXCEPT !.series =
                          Append(@, [id |-> series[k].ID,
                                     labels |-> opts.Timeseries[k].labels,
                                     chunks |-> Refs(series[k].Chunks)])]
             /\ k' = k + 1
             /\ pc' = IF k < Len(series) THEN "AddSeries" ELSE AfterAddSeries
             /\ UNCHANGED err
             /\ Called("iw.AddSeries", TRUE, k)
        ELSE /\ Fail("failed to create index: failed to write timeseries")
             /\ Called("iw.AddSeries", FALSE, k)
             /\ UNCHANGED <<iw, k>>
    /\ UNCHANGED <<opts, blockStart, blockEnd, created, rngDraws, blockULID,
                   series, popVars, labelValues, pending, postings, metas>>

\* the values passed to iw.WriteLabelIndex for name
LabelIndexValues(name) == labelValues[name]

\* iw.WriteLabelIndex for one name of labelValues; a range over a map visits
\* the names in any order
createIndex_WriteLabelIndex ==
    /\ pc = "WriteLabelIndex"
    /\ \E name \in pending, ok \in BOOLEAN :
        IF ok
        THEN /\ iw' = [iw EXCEPT !.labelIndex =
                          Append(@, [names |-> <<name>>,
                                     values |-> LabelIndexValues(name)])]
             /\ pending' = pending \ {name}
             /\ pc' = IF pending' # {} THEN "WriteLabelIndex" ELSE "postings"
             /\ UNCHANGED err
             /\ Called("iw.WriteLabelIndex", TRUE, name)
        ELSE /\ Fail("failed to create index")
             /\ Called("iw.WriteLabelIndex", FALSE, name)
             /\ UNCHANGED <<iw, pending>>
    /\ UNCHANGED <<opts, blockStart, blockEnd, created, rngDraws, blockULID,
                   series, popVars, labelValues, postings, k, metas>>

\* index.allPostingsKey: the pair of empty strings
allPostingsKey == [Name |-> 0, Value |-> 0]

\* MemPostings.addFor on an ordered MemPostings: append, then repair the order
\* by moving the new id down
RECURSIVE Repair(_, _)
Repair(list, j) ==
    IF j < 2 \/ list[j] >= list[j - 1] THEN list
    ELSE Repair([list EXCEPT ![j] = list[j - 1], ![j - 1] = list[j]], j - 1)

addFor(m, id, l) ==
    LET old == IF l \in DOMAIN m THEN m[l] ELSE <<>>
        list == Append(old, id)
    IN  [key \in DOMAIN m \cup {l} |->
            IF key = l THEN Repair(list, Len(list)) ELSE m[key]]

\* MemPostings.Add: the id goes to every label of lset and to allPostingsKey
\* (each intermediate map is bound as the element of a singleton set, so that it
\* is computed once)
RECURSIVE addLabels(_, _, _)
addLabels(m, id, lset) ==
    IF lset = <<>> THEN m
    ELSE CHOOSE out \in {addLabels(added, id, Tail(lset)) :
                             added \in {addFor(m, id, lset[1])}} : TRUE

Add(m, id, lset) ==
    CHOOSE out \in {addFor(added, id, allPostingsKey) :
                        added \in {addLabels(m, id, lset)}} : TRUE

\* a loop that leaves out the first series
RECURSIVE AddAll_SkipsFirst(_, _)
AddAll_SkipsFirst(m, n) ==
    IF n <= 1 THEN m
    ELSE Add(AddAll_SkipsFirst(m, n - 1), series[n].ID, opts.Timeseries[n].labels)

\* the loop that adds series 1..n to the postings
RECURSIVE AddAll(_, _)
AddAll(m, n) ==
    IF n = 0 THEN m
    ELSE CHOOSE out \in {Add(added, series[n].ID, opts.Timeseries[n].labels) :
                             added \in {AddAll(m, n - 1)}} : TRUE

\* the order of MemPostings.SortedKeys: by name, then by value
KeyLess(a, b) == a.Name < b.Name \/ (a.Name = b.Name /\ a.Value < b.Value)

RECURSIVE SortKeys(_)
SortKeys(S) ==
    IF S = {} THEN <<>>
    ELSE LET least == CHOOSE x \in S : \A y \in S \ {x} : KeyLess(x, y)
         IN  <<least>> \o SortKeys(S \ {least})

SortedKeys(m) == SortKeys(DOMAIN m)

\* index.NewMemPostings and the loop of postings.Add
createIndex_postings ==
    /\ pc = "postings"
    /\ postings' = AddAll(<<>>, Len(series))
    /\ k' = 1
    /\ pc' = IF DOMAIN postings' # {} THEN "WritePostings" ELSE "Close"
    /\ UNCHANGED <<opts, err, blockStart, blockEnd, created, rngDraws, blockULID,
                   series, popVars, iw, labelValues, pending, metas, log>>

\* iw.WritePostings for the k-th sorted key
createIndex_WritePostings ==
    /\ pc = "WritePostings"
    /\ \E ok \in BOOLEAN :
        LET l == SortedKeys(postings)[k]
        IN  IF ok
            THEN /\ iw' = [iw EXCEPT !.postings =
                              Append(@, [Name |-> l.Name, Value |-> l.Value,
                                         ids |-> postings[l]])]
                 /\ k' = k + 1
                 /\ pc' = IF k < Len(SortedKeys(postings)) THEN "WritePostings"
                                                           ELSE "Close"
                 /\ UNCHANGED err
                 /\ Called("iw.WritePostings", TRUE, k)
            ELSE /\ Fail("failed to create index: write postings")
                 /\ Called("iw.WritePostings", FALSE, k)
                 /\ UNCHANGED <<iw, k>>
    /\ UNCHANGED <<opts, blockStart, blockEnd, created, rngDraws, blockULID,
                   series, popVars, labelValues, pending, postings, metas>>

\* iw.Close()
createIndex_Close ==
    /\ pc = "Close"
    /\ \E ok \in BOOLEAN :
        IF ok
        THEN /\ iw' = [iw EXCEPT !.state = "closed"]
             /\ pc' = "meta"
             /\ UNCHANGED err
             /\ Called("iw.Close", TRUE, 0)
        ELSE /\ Fail("failed to create index")
             /\ Called("iw.Close", FALSE, 0)
             /\ UNCHANGED iw
    /\ UNCHANGED <<opts, blockStart, blockEnd, created, rngDraws, blockULID,
                   series, popVars, labelValues, pending, postings, k, metas>>

(***************************************************************************)
(* createBlock: the metadata of the block.                                 *)
(***************************************************************************)
numChunks ==
    Len(opts.Timeseries) * ((blockEnd - blockStart) \div (opts.SampleInterval * samplesPerChunk))

\* the values formatted into blockMetaTemplate
BlockMeta ==
    [ulid |-> blockULID,
     minTime |-> Unix(blockStart) * 1000,
     maxTime |-> Unix(blockEnd) * 1000,
     numSamples |-> numChunks * samplesPerChunk,
     numSeries |-> Len(opts.Timeseries),
     numChunks |-> numChunks]

\* ioutil.WriteFile of meta.json; createBlock returns and the block loop steps
createBlock_meta ==
    /\ pc = "meta"
    /\ \E ok \in BOOLEAN :
        IF ok
        THEN /\ metas' = Append(metas, BlockMeta)
             /\ blockStart' = NextBlockStart
             /\ pc' = "loop"
             /\ UNCHANGED err
             /\ Called("ioutil.WriteFile", TRUE, 0)
        ELSE /\ Fail("failed to write metadata")
             /\ Called("ioutil.WriteFile", FALSE, 0)
             /\ UNCHANGED <<metas, blockStart>>
    /\ UNCHANGED <<opts, blockEnd, created, rngDraws, blockULID, series, popVars,
                   idxVars>>

Next ==
    \/ CreateThanosTSDB
    \/ createBlock
    \/ Return
    \/ populateChunks
    \/ populateChunks_chunk
    \/ populateChunks_WriteChunks
    \/ populateChunks_Close
    \/ createIndex
    \/ createIndex_AddSymbols
    \/ createIndex_AddSeries
    \/ createIndex_WriteLabelIndex
    \/ createIndex_postings
    \/ createIndex_WritePostings
    \/ createIndex_Close
    \/ createBlock_meta

Spec == Init /\ [][Next]_vars

\* the run is one sequential call: a statement that can be executed is executed
LiveSpec == Spec /\ WF_vars(Next)

(***************************************************************************)
(* Properties.                                                             *)
(***************************************************************************)
Last(q) == q[Len(q)]

\* C1: the windows passed to createBlock are, in order,
\* [start + k*blockLength, start + (k+1)*blockLength): the first begins at
\* start, each begins where the one before ends, every one begins before end,
\* only the last one may end after end, and a run that returns nil has
\* covered the range up to end.
C1_BlockWindowsTile ==
    /\ \A n \in 1..Len(created) :
        /\ created[n][1] = opts.StartTime + (n - 1) * opts.BlockLength
        /\ created[n][2] = created[n][1] + opts.BlockLength
        /\ n > 1 => created[n][1] = created[n - 1][2]
        /\ created[n][1] < opts.EndTime
        /\ n < Len(created) => created[n][2] <= opts.EndTime
    /\ (pc = "done" /\ err = "" /\ opts.StartTime < opts.EndTime) =>
        /\ created # <<>>
        /\ Last(created)[2] >= opts.EndTime

\* a run of two blocks that returned nil, the second block ending after end
C1_Witness ==
    /\ pc = "done"
    /\ err = ""
    /\ Len(created) = 2
    /\ created[2][2] > opts.EndTime

\* nothing of any block exists: no identifier drawn, no writer opened, no
\* meta.json written
NothingBuilt ==
    /\ created = <<>>
    /\ rngDraws = 0
    /\ cw = NoChunkWriter
    /\ iw = NoIndexWriter
    /\ metas = <<>>

Entered == pc # "CreateThanosTSDB"

\* C2 as stated: a start time greater than or equal to the end time gives the
\* configuration error and no block construction.
C2_ErrorWhenStartNotBeforeEnd ==
    (Entered /\ opts.StartTime >= opts.EndTime) =>
        /\ pc = "done"
        /\ err = "end time cannot come after start time"
        /\ NothingBuilt

\* C2, amended: a start time after the end time gives the configuration error,
\* a start time equal to the end time gives no error, and in both cases
\* nothing of any block is built.
C2_ErrorWhenStartAfterEnd ==
    /\ (Entered /\ opts.StartTime > opts.EndTime) =>
        /\ pc = "done"
        /\ err = "end time cannot come after start time"
        /\ NothingBuilt
    /\ (Entered /\ opts.StartTime = opts.EndTime) =>
        /\ err = ""
        /\ NothingBuilt

\* a run with the defaulted start time after the end time has returned
C2_Witness ==
    /\ pc = "done"
    /\ opts.StartTime > opts.EndTime
    /\ err # ""

\* the entries of alloc of series j, in order
AllocOf(j) == SelectSeq(alloc, LAMBDA a : a.series = j)

\* the chunk loop of series j of the current block has ended
ChunksComplete(j) ==
    \/ pc = "chunk" /\ (i > j \/ (i = j /\ ~Before(chunkStart, blockEnd)))
    \/ pc \in {"createIndex", "AddSymbols", "AddSeries", "WriteLabelIndex",
               "postings", "WritePostings", "Close", "meta"}

\* the chunks.Meta appended for the n-th chunk of the block
ChunkAt(n) ==
    LET j == alloc[n].series
    IN  series[j].Chunks[Cardinality({m \in 1..n : alloc[m].series = j})]

\* C3 as stated: the windows of the chunks of a series, in the order appended,
\* start at blockStart, have strictly increasing starts, each begin where the
\* one before ends, and end at blockEnd: their union is the block window.
C3_ChunksCoverBlockExactly ==
    \A j \in 1..Len(series) :
        LET a == AllocOf(j)
        IN  /\ \A n \in 1..Len(a) :
                /\ n = 1 => a[n].start = blockStart
                /\ n > 1 => a[n].start = a[n - 1].end /\ a[n - 1].start < a[n].start
                /\ a[n].end <= blockEnd
            /\ ChunksComplete(j) => a # <<>> /\ Last(a).end = blockEnd

\* C4 as stated: every timestamp appended to a chunk lies in
\* [MinTime, MinTime + chunkLength), in milliseconds.
C4_SamplesInsideChunkWindow ==
    \A j \in 1..Len(series) :
        \A n \in 1..Len(series[j].Chunks) :
            LET c == series[j].Chunks[n]
            IN  \A x \in 1..Len(c.Chunk.samples) :
                    /\ c.MinTime <= c.Chunk.samples[x]
                    /\ c.Chunk.samples[x] < c.MinTime + DurationMillis(chunkLength)

\* C5: the reference of every chunk decodes to the offset and the segment index
\* it was assigned with, the offset is at least segmentStartOffset and fits 32
\* bits, and the chunk ends within the segment.
C5_RefDecodesAndFits ==
    \A n \in 1..Len(alloc) :
        /\ Low32(ChunkAt(n).Ref) = Word(alloc[n].ref)
        /\ Shr32(ChunkAt(n).Ref) = Word(alloc[n].seg)
        /\ alloc[n].ref >= segmentStartOffset
        /\ alloc[n].ref \div Limb < Limb
        /\ alloc[n].ref + alloc[n].size <= maxSegmentSize
        /\ alloc[n].size = ChunkAt(n).Chunk.bytes + chunkOverheadSize

\* a chunk placed behind another chunk in a segment reached by a rollover
C5_Witness ==
    \E n \in 2..Len(alloc) :
        /\ alloc[n].seg = 1
        /\ alloc[n - 1].seg = 1
        /\ alloc[n].ref > segmentStartOffset

\* C6: in the order of assignment within a block the references strictly
\* increase, the segment index never decreases, and two chunks of one segment
\* occupy disjoint byte ranges.
C6_RefsIncrease ==
    \A m, n \in 1..Len(alloc) :
        m < n =>
            /\ WordLess(ChunkAt(m).Ref, ChunkAt(n).Ref)
            /\ alloc[m].seg <= alloc[n].seg
            /\ alloc[m].seg = alloc[n].seg =>
                   alloc[m].ref + alloc[m].size <= alloc[n].ref

\* chunks of two series in one block, with a rollover between them
C6_Witness ==
    /\ Len(alloc) >= 4
    /\ alloc[1].series # Last(alloc).series
    /\ alloc[1].seg < Last(alloc).seg
    /\ \E n \in 2..Len(alloc) : alloc[n].seg = alloc[n - 1].seg

\* the (name, value) pairs of the generator at position j
PairsOf(j) ==
    {opts.Timeseries[j].labels[x] : x \in 1..Len(opts.Timeseries[j].labels)}

AllPairs == UNION {PairsOf(j) : j \in 1..Len(opts.Timeseries)}

\* the ids of the series whose label set contains pair
IdsCarrying(pair) == {j - 1 : j \in {g \in 1..Len(opts.Timeseries) : pair \in PairsOf(g)}}

Elements(q) == {q[x] : x \in 1..Len(q)}

StrictlyAscending(q) == \A x \in 1..(Len(q) - 1) : q[x] < q[x + 1]

\* every call of its loop has been made on the index writer
IndexWritten == pc = "Close" \/ iw.state = "closed"

\* C7: the id list passed to WritePostings for a pair of some generator is the
\* ascending, duplicate-free list of exactly the ids of the series carrying
\* the pair, and every such pair gets one call.
C7_PostingsExact ==
    /\ \A x \in 1..Len(iw.postings) :
        LET key == [Name |-> iw.postings[x].Name, Value |-> iw.postings[x].Value]
        IN  key \in AllPairs =>
                /\ StrictlyAscending(iw.postings[x].ids)
                /\ Elements(iw.postings[x].ids) = IdsCarrying(key)
    /\ IndexWritten =>
        \A pair \in AllPairs :
            Cardinality({x \in 1..Len(iw.postings) :
                            /\ iw.postings[x].Name = pair.Name
                            /\ iw.postings[x].Value = pair.Value}) = 1

\* an index with a pair carried by two series and a pair carried by the
\* second series alone
C7_Witness ==
    /\ iw.state = "closed"
    /\ \E x, y \in 1..Len(iw.postings) :
        /\ iw.postings[x].ids = <<0, 1>>
        /\ iw.postings[x].Name # 0
        /\ iw.postings[y].ids = <<1>>

\* the distinct values of label name over all generators
DistinctValues(name) == {pair.Value : pair \in {q \in AllPairs : q.Name = name}}

\* C8 as stated: the value list passed to WriteLabelIndex for a name is sorted
\* ascending and holds each distinct value of the name exactly once.
C8_LabelIndexSortedDistinct ==
    \A x \in 1..Len(iw.labelIndex) :
        /\ StrictlyAscending(iw.labelIndex[x].values)
        /\ Elements(iw.labelIndex[x].values) = DistinctValues(iw.labelIndex[x].names[1])

\* C9: the ids of the series of a block are 0..numSeries-1 in the order of the
\* generators, and the same ids go to AddSeries and to the postings.
C9_SeriesIdsDense ==
    /\ created # <<>> => Len(series) = Len(opts.Timeseries)
    /\ \A j \in 1..Len(series) : series[j].ID = j - 1
    /\ \A x \in 1..Len(iw.series) :
        /\ iw.series[x].id = x - 1
        /\ iw.series[x].labels = opts.Timeseries[x].labels
    /\ IndexWritten => Len(iw.series) = Len(opts.Timeseries)
    /\ \A key \in DOMAIN postings :
        Elements(postings[key]) \subseteq 0..(Len(opts.Timeseries) - 1)
    /\ allPostingsKey \in DOMAIN postings =>
        postings[allPostingsKey] = [x \in 1..Len(opts.Timeseries) |-> x - 1]

\* the index of a block of two series is complete
C9_Witness ==
    /\ iw.state = "closed"
    /\ iw.dir = blockULID
    /\ Len(series) = 2
    /\ Len(iw.series) = 2
    /\ allPostingsKey \in DOMAIN postings

\* the number of Append calls made for the first n chunks of the block
RECURSIVE Appended(_)
Appended(n) ==
    IF n = 0 THEN 0 ELSE Appended(n - 1) + Len(ChunkAt(n).Chunk.samples)

\* meta.json of the current block has been written
MetaWritten == metas # <<>> /\ Last(metas).ulid = blockULID

\* C10 as stated: numSamples of meta.json is at least the number of samples
\* appended to the chunks of the block.
C10_NumSamplesUpperBound ==
    MetaWritten => Last(metas).numSamples >= Appended(Len(alloc))

\* C11 as stated: in meta.json of a block, numSeries is the number of series
\* of the block and numChunks is the number of chunk metadata records appended
\* to all its series, whatever the block length and the sample interval.
C11_MetaStatsAccurate ==
    MetaWritten =>
        /\ Last(metas).numSeries = Len(series)
        /\ Last(metas).numChunks = Len(alloc)

\* the instant t in milliseconds since the epoch
Millis(t) == (t * 1000) \div TicksPerSecond

\* no call on a collaborator has failed
NoFailure == \A n \in 1..Len(log) : log[n].ok

\* C12 as stated: a range no longer than the block length gives exactly one
\* block and no error; every meta.json reports numSeries = the number of
\* generators, minTime = the start of the block window in epoch milliseconds and
\* maxTime = that start plus the block length in milliseconds, also for a start
\* that is not a whole second.
C12_OneBlockAndMetaWindow ==
    /\ (/\ pc = "done"
        /\ NoFailure
        /\ Before(opts.StartTime, opts.EndTime)
        /\ opts.EndTime - opts.StartTime <= opts.BlockLength)
       => (err = "" /\ Len(created) = 1 /\ Len(metas) = 1)
    /\ \A n \in 1..Len(metas) :
        /\ metas[n].numSeries = Len(opts.Timeseries)
        /\ metas[n].minTime = Millis(created[n][1])
        /\ metas[n].maxTime = Millis(created[n][1]) + DurationMillis(opts.BlockLength)

\* the references passed to cw.WriteChunks for the first n series, in order
RECURSIVE Submitted(_)
Submitted(n) ==
    IF n = 0 THEN <<>> ELSE Submitted(n - 1) \o Refs(series[n].Chunks)

\* the run ended with the error of the chunk size test
SizingError == err = "failed to create chunks: chunk too big"

\* no chunk appended to a series is larger than maxChunkSize
AppendedChunksFit ==
    \A j \in 1..Len(series) : \A n \in 1..Len(series[j].Chunks) :
        series[j].Chunks[n].Chunk.bytes + chunkOverheadSize <= maxChunkSize

\* C13 as stated: when a chunk is larger than maxChunkSize the run returns the
\* sizing error, the chunk is neither appended nor submitted, and no chunk of
\* the block has been submitted to the chunk writer at that moment.
C13_NothingSubmittedAtSizingError ==
    /\ AppendedChunksFit
    /\ SizingError => (pc = "done" /\ cw.chunks = <<>>)

\* C13 (amended): when a chunk is larger than maxChunkSize the run returns the
\* sizing error at once and the chunk is neither appended to its series nor
\* submitted; the chunk writer has then received all chunks of the series
\* before the one being built and none of that series, it is not closed, and
\* neither the index nor meta.json of the block is written.
C13_SizingErrorStopsSeries ==
    /\ AppendedChunksFit
    /\ SizingError =>
        /\ pc = "done"
        /\ Last(log) = [op |-> "ch.Bytes", block |-> Len(created), ok |-> FALSE,
                        arg |-> i]
        /\ cw.dir = blockULID
        /\ cw.state = "open"
        /\ cw.chunks = Submitted(i - 1)
        /\ iw.dir # blockULID
        /\ ~MetaWritten

\* the sizing error at the second chunk of the second series
C13_Witness ==
    /\ SizingError
    /\ i = 2
    /\ Len(series[2].Chunks) = 1
    /\ cw.chunks # <<>>

\* the place of a call in the construction of a block
Stage(op) ==
    CASE op = "ulid.New" -> 0
      [] op = "chunks.NewWriter" -> 1
      [] op \in {"ch.Appender", "ch.Bytes", "cw.WriteChunks"} -> 2
      [] op = "cw.Close" -> 3
      [] op = "index.NewWriter" -> 4
      [] op = "iw.AddSymbols" -> 5
      [] op = "iw.AddSeries" -> 6
      [] op = "iw.WriteLabelIndex" -> 7
      [] op = "iw.WritePostings" -> 8
      [] op = "iw.Close" -> 9
      [] op = "ioutil.WriteFile" -> 10

\* the calls made once per series or key, whose arg counts up
Counted == {"cw.WriteChunks", "iw.AddSeries", "iw.WritePostings"}

\* the call at position y of the log comes directly after the successful call
\* op of the same block
DirectlyAfter(y, op) ==
    /\ y > 1
    /\ log[y - 1] = [op |-> op, block |-> log[y].block, ok |-> TRUE, arg |-> 0]

\* C14: within a block the chunks of all series are submitted in input order
\* and the chunk writer is closed before the index writer is opened, the index
\* writer is closed before meta.json is written, and meta.json is the last
\* write of the block; a block is started only after meta.json of the block
\* before it was written, and blocks are built in increasing window order.
C14_StrictOrder ==
    /\ \A y \in 2..Len(log) :
        LET a == log[y - 1]
            b == log[y]
        IN  /\ a.ok
            /\ a.block <= b.block
            /\ a.block = b.block =>
                /\ Stage(a.op) <= Stage(b.op)
                /\ Stage(a.op) = Stage(b.op) =>
                    \/ a.op = b.op /\ a.op \in Counted /\ a.arg < b.arg
                    \/ a.op = b.op /\ a.op = "iw.WriteLabelIndex"
                    \/ a.op = "cw.WriteChunks" /\ b.op \in {"ch.Appender", "ch.Bytes"}
    /\ \A y \in 1..Len(log) :
        /\ log[y].block \in 1..Len(created)
        /\ log[y].op = "ulid.New" =>
            \/ y = 1 /\ log[y].block = 1
            \/ /\ y > 1
               /\ log[y - 1] = [op |-> "ioutil.WriteFile", block |-> log[y].block - 1,
                                ok |-> TRUE, arg |-> 0]
               /\ Len(metas) >= log[y].block - 1
        /\ log[y].op = "cw.Close" =>
            /\ y > Len(opts.Timeseries)
            /\ \A j \in 1..Len(opts.Timeseries) :
                log[y - Len(opts.Timeseries) + j - 1] =
                    [op |-> "cw.WriteChunks", block |-> log[y].block, ok |-> TRUE,
                     arg |-> j]
        /\ log[y].op = "index.NewWriter" => DirectlyAfter(y, "cw.Close")
        /\ log[y].op = "ioutil.WriteFile" => DirectlyAfter(y, "iw.Close")
    /\ \A n \in 1..Len(created) - 1 : created[n][1] < created[n + 1][1]
    /\ cw.state = "open" => iw.dir # blockULID
    /\ MetaWritten => (cw.state = "closed" /\ iw.state = "closed" /\ iw.dir = blockULID)

\* meta.json of the second block of a run with two series is written
C14_Witness ==
    /\ Len(metas) = 2
    /\ Len(series) = 2
    /\ Last(log).op = "ioutil.WriteFile"
    /\ Last(log).ok
    /\ Last(log).block = 2

\* the errors createBlock returns for a failure at the given stage
WrappedErrors(stage) ==
    IF stage \in 1..3
    THEN {"failed to create chunks", "failed to create chunks: chunk too big"}
    ELSE IF stage \in 4..9
    THEN {"failed to create index", "failed to create index: failed to write timeseries",
          "failed to create index: write postings"}
    ELSE IF stage = 10 THEN {"failed to write metadata"}
    ELSE {}

\* a is an initial part of b
IsPrefix(a, b) == Len(a) <= Len(b) /\ SubSeq(b, 1, Len(a)) = a

\* a failed call is the last call of the run: the run is over with the error
\* of the stage of that call, in the block of that call, whose meta.json is not
\* written
FailureIsFinal ==
    /\ \A y \in 1..Len(log) :
        ~log[y].ok =>
            /\ y = Len(log)
            /\ pc = "done"
            /\ err \in WrappedErrors(Stage(log[y].op))
            /\ log[y].block = Len(created)
            /\ Len(metas) = Len(created) - 1
            /\ ~MetaWritten
    /\ (err # "" /\ created # <<>>) => (log # <<>> /\ ~Last(log).ok)

\* C15: when a call of a block fails, CreateThanosTSDB returns the error
\* wrapped with its stage (chunks, index, metadata) and makes no later call,
\* neither for that block (its meta.json is never written when the chunk or
\* index stage failed) nor for a later block, and what was written stays.
C15_FirstFailureEndsRun ==
    [][/\ FailureIsFinal'
       /\ IsPrefix(metas, metas')
       /\ IsPrefix(log, log')
       /\ (log' # log /\ ~Last(log').ok) => UNCHANGED <<cw, iw, series, metas, created>>
       /\ pc = "done" => UNCHANGED vars]_vars

\* the index writer of the second block fails after the first block was
\* written
C15_Witness ==
    /\ err = "failed to create index"
    /\ Len(created) = 2
    /\ Len(metas) = 1
    /\ cw.state = "closed"
    /\ ~Last(log).ok

\* C16: the cursor of the allocator belongs to one block and is shared by its
\* series: every block starts with (seg, ref) = (0, segmentStartOffset), so
\* the first chunk of its first series gets the reference segmentStartOffset;
\* within the block every chunk, also the first one of the next series, lies
\* directly behind the chunk before it, or at segmentStartOffset of the next
\* segment after a rollover.
C16_CursorPerBlock ==
    /\ (pc = "chunk" /\ alloc = <<>>) => (ref = segmentStartOffset /\ seg = 0)
    /\ alloc # <<>> =>
        /\ alloc[1].series = 1
        /\ ChunkAt(1).Ref = PackRef(segmentStartOffset, 0)
    /\ \A n \in 2..Len(alloc) :
        LET behind == alloc[n - 1].ref + alloc[n - 1].size
        IN  \/ /\ behind + alloc[n].size <= maxSegmentSize
               /\ ChunkAt(n).Ref = PackRef(behind, alloc[n - 1].seg)
            \/ /\ behind + alloc[n].size > maxSegmentSize
               /\ ChunkAt(n).Ref = PackRef(segmentStartOffset, alloc[n - 1].seg + 1)

\* in the second block of a run, the first chunk of the second series lies
\* directly behind the last chunk of the first series
C16_Witness ==
    /\ Len(created) = 2
    /\ Len(metas) = 1
    /\ \E n \in 2..Len(alloc) :
        /\ alloc[n - 1].series = 1
        /\ alloc[n].series = 2
        /\ alloc[n].seg = alloc[n - 1].seg
        /\ alloc[n].ref = alloc[n - 1].ref + alloc[n - 1].size

\* C17 as stated: within every chunk the timestamps strictly increase and each
\* is exactly the sample interval, in milliseconds, after the one before it,
\* for every positive sample interval and every block start.
C17_UniformSpacing ==
    \A n \in 1..Len(alloc) :
        LET t == ChunkAt(n).Chunk.samples
        IN  \A x \in 2..Len(t) :
                /\ t[x - 1] < t[x]
                /\ t[x] = t[x - 1] + DurationMillis(opts.SampleInterval)

\* C18: every chunk holds exactly samplesPerChunk samples, also the last chunk
\* of a block whose length is not a multiple of the chunk length.
C18_FullChunks ==
    \A j \in 1..Len(series) : \A n \in 1..Len(series[j].Chunks) :
        Len(series[j].Chunks[n].Chunk.samples) = samplesPerChunk

\* a chunk whose window ends after the block holds samplesPerChunk samples
C18_Witness ==
    /\ alloc # <<>>
    /\ Before(blockEnd, Last(alloc).end)
    /\ Len(ChunkAt(Len(alloc)).Chunk.samples) = samplesPerChunk
    /\ cw.chunks # <<>>

\* a run without a failed call that has returned built the blocks of the range,
\* and a series whose chunk loop has ended has the chunks of the block
BlocksAndChunksBuilt ==
    /\ (pc = "done" /\ NoFailure /\ Before(opts.StartTime, opts.EndTime)) =>
        /\ err = ""
        /\ Len(created) = CeilDiv(opts.EndTime - opts.StartTime, opts.BlockLength)
        /\ Len(metas) = Len(created)
    /\ \A j \in 1..Len(series) :
        ChunksComplete(j) =>
            Len(series[j].Chunks) = CeilDiv(opts.BlockLength, chunkLength)

\* a step that changes a loop variable moves it forward, and the instants of
\* the sample loop of a new chunk increase
LoopsAdvance ==
    /\ (pc = "meta" /\ pc' = "loop") => blockStart < blockStart'
    /\ (pc = "chunk" /\ alloc' # alloc) =>
        /\ chunkStart < chunkStart'
        /\ LET at == SampleInstants(Last(alloc').start, Last(alloc').end)
           IN  \A x \in 2..Len(at) : at[x - 1] < at[x]

\* C19: for start < end, positive block length and sample interval and calls
\* that never fail, CreateThanosTSDB returns, without an error, after building
\* ceil((end - start) / blockLength) blocks with ceil(blockLength /
\* (sampleInterval * samplesPerChunk)) chunks per series; blockStart,
\* chunkStart and sample move forward in every iteration.
C19_TerminatesWithAllBlocks ==
    /\ []BlocksAndChunksBuilt
    /\ [][LoopsAdvance]_vars
    /\ <>(pc = "done")

\* a run of two blocks with two chunks per series has returned nil
C19_Witness ==
    /\ pc = "done"
    /\ err = ""
    /\ Len(metas) = 2
    /\ Len(series) = 2
    /\ Len(series[2].Chunks) = 2

====
